---- MODULE Spec2Model ----
(***************************************************************************)
(* Christian Personal Data Tracker (src/app.py): a Streamlit script that   *)
(* keeps two JSON documents in browser cookies (tracking_data, config) and *)
(* renders five pages from them.  One script run (init_data_cookies() then *)
(* main()) is one action of the model.                                     *)
(*                                                                         *)
(* Python values are tagged tuples:                                        *)
(*   <<"dict", <<k1, v1>>, ...>> as a sequence of items in insertion order *)
(*   <<"list", <<v1, ...>>>>, <<"int", n>>, <<"bool", b>>,                 *)
(*   <<"str", s>>    a str whose text is only ever tested for equality,    *)
(*   <<"chars", cs>> a str that is formatted, parsed or compared by        *)
(*                   character (dates, periods): cs is its characters.     *)
(* A JSON text is the sequence of its tokens (whitespace is not kept).     *)
(***************************************************************************)
EXTENDS Integers, Sequences, FiniteSets, TLC

VARIABLES cookies, config_json, view, session, probe

vars == <<cookies, config_json, view, session, probe>>

(* ------------------------------ bounds --------------------------------- *)

\* The most entries the Log Entry form is submitted for.
MaxEntries == 3

(* --------------------------- Python values ----------------------------- *)

PyStr(s) == <<"str", s>>
PyChars(cs) == <<"chars", cs>>
PyInt(n) == <<"int", n>>
PyBool(b) == <<"bool", b>>
PyList(xs) == <<"list", xs>>
PyDict(items) == <<"dict", items>>
PyNone == <<"none">>

IsDict(v) == v[1] = "dict"
IsList(v) == v[1] = "list"

\* k in d
HasKey(d, k) == \E i \in 1..Len(d[2]) : d[2][i][1] = k

\* d[k], for a key that is present
Item(d, k) == d[2][CHOOSE i \in 1..Len(d[2]) : d[2][i][1] = k][2]

\* d.get(k, default)
DictGet(d, k, default) == IF HasKey(d, k) THEN Item(d, k) ELSE default

\* d[k] = v : an existing key keeps its position, a new key goes last
DictSet(d, k, v) ==
    IF HasKey(d, k)
    THEN PyDict([i \in 1..Len(d[2]) |->
                    IF d[2][i][1] = k THEN <<k, v>> ELSE d[2][i]])
    ELSE PyDict(Append(d[2], <<k, v>>))

(* ------------------------------- JSON ---------------------------------- *)

DigitChars == <<"0", "1", "2", "3", "4", "5", "6", "7", "8", "9">>

IsDigit(c) == \E i \in 1..10 : DigitChars[i] = c

DigitVal(c) == (CHOOSE i \in 1..10 : DigitChars[i] = c) - 1

RECURSIVE IntToDigits(_)
\* the decimal digits of a non-negative int, as str(n) writes them
IntToDigits(n) ==
    IF n < 10 THEN <<DigitChars[n + 1]>>
    ELSE Append(IntToDigits(n \div 10), DigitChars[(n % 10) + 1])

\* str(n) of an int: a minus sign before the digits of a negative one
IntToChars(n) == IF n < 0 THEN <<"-">> \o IntToDigits(0 - n) ELSE IntToDigits(n)

RECURSIVE DigitsToInt(_)
\* int(cs) for a non-empty sequence of digits
DigitsToInt(cs) ==
    IF Len(cs) = 0 THEN 0
    ELSE 10 * DigitsToInt(SubSeq(cs, 1, Len(cs) - 1)) + DigitVal(cs[Len(cs)])

Punct(c) == <<"p", c>>

RECURSIVE json_dumps(_)
RECURSIVE DumpItems(_, _)
RECURSIVE DumpElems(_, _)

\* json.dumps(v): the tokens of the JSON text of v
json_dumps(v) ==
    CASE v[1] = "dict"  -> <<Punct("{")>> \o DumpItems(v[2], 1) \o <<Punct("}")>>
      [] v[1] = "list"  -> <<Punct("[")>> \o DumpElems(v[2], 1) \o <<Punct("]")>>
      [] v[1] = "str"   -> << <<"s", "str", v[2]>> >>
      [] v[1] = "chars" -> << <<"s", "chars", v[2]>> >>
      [] v[1] = "int"   -> << <<"n", IntToChars(v[2])>> >>
      [] v[1] = "bool"  -> << <<"l", IF v[2] THEN "true" ELSE "false">> >>
      [] v[1] = "none"  -> << <<"l", "null">> >>

DumpItems(items, i) ==
    IF i > Len(items) THEN <<>>
    ELSE (IF i > 1 THEN <<Punct(",")>> ELSE <<>>)
         \o << <<"s", "str", items[i][1]>>, Punct(":") >>
         \o json_dumps(items[i][2])
         \o DumpItems(items, i + 1)

DumpElems(xs, i) ==
    IF i > Len(xs) THEN <<>>
    ELSE (IF i > 1 THEN <<Punct(",")>> ELSE <<>>)
         \o json_dumps(xs[i])
         \o DumpElems(xs, i + 1)

ParseFail == [ok |-> FALSE, val |-> PyNone, next |-> 0]

IsPunct(toks, i, c) == i <= Len(toks) /\ toks[i][1] = "p" /\ toks[i][2] = c

RECURSIVE ParseValue(_, _)
RECURSIVE ParseMembers(_, _, _)
RECURSIVE ParseElements(_, _, _)

\* The JSON value that starts at token i: [ok, val, next] with next the
\* position after it, or ParseFail.
ParseValue(toks, i) ==
    IF i > Len(toks) THEN ParseFail
    ELSE LET t == toks[i] IN
      CASE t[1] = "s" -> [ok |-> TRUE, val |-> <<t[2], t[3]>>, next |-> i + 1]
        [] t[1] = "n" ->
             LET neg == Len(t[2]) >= 1 /\ t[2][1] = "-"
                 ds == IF neg THEN Tail(t[2]) ELSE t[2]
             IN IF Len(ds) >= 1 /\ (\A j \in 1..Len(ds) : IsDigit(ds[j]))
                   /\ (Len(ds) > 1 => ds[1] # "0")
                THEN [ok |-> TRUE, next |-> i + 1,
                      val |-> PyInt(IF neg THEN 0 - DigitsToInt(ds) ELSE DigitsToInt(ds))]
                ELSE ParseFail
        [] t[1] = "l" ->
             CASE t[2] = "true"  -> [ok |-> TRUE, val |-> PyBool(TRUE), next |-> i + 1]
               [] t[2] = "false" -> [ok |-> TRUE, val |-> PyBool(FALSE), next |-> i + 1]
               [] t[2] = "null"  -> [ok |-> TRUE, val |-> PyNone, next |-> i + 1]
               [] OTHER -> ParseFail
        [] t[1] = "p" ->
             CASE t[2] = "{" ->
                    IF IsPunct(toks, i + 1, "}")
                    THEN [ok |-> TRUE, val |-> PyDict(<<>>), next |-> i + 2]
                    ELSE ParseMembers(toks, i + 1, PyDict(<<>>))
               [] t[2] = "[" ->
                    IF IsPunct(toks, i + 1, "]")
                    THEN [ok |-> TRUE, val |-> PyList(<<>>), next |-> i + 2]
                    ELSE ParseElements(toks, i + 1, <<>>)
               [] OTHER -> ParseFail
        [] OTHER -> ParseFail

\* members of an object from token i on; acc is the dict read so far
ParseMembers(toks, i, acc) ==
    IF ~(i + 1 <= Len(toks) /\ toks[i][1] = "s" /\ toks[i][2] = "str"
         /\ IsPunct(toks, i + 1, ":"))
    THEN ParseFail
    ELSE LET r == ParseValue(toks, i + 2) IN
         IF ~r.ok THEN ParseFail
         ELSE LET d == DictSet(acc, toks[i][3], r.val) IN
              IF IsPunct(toks, r.next, "}")
              THEN [ok |-> TRUE, val |-> d, next |-> r.next + 1]
              ELSE IF IsPunct(toks, r.next, ",")
                   THEN ParseMembers(toks, r.next + 1, d)
                   ELSE ParseFail

\* elements of an array from token i on; acc is the list read so far
ParseElements(toks, i, acc) ==
    LET r == ParseValue(toks, i) IN
    IF ~r.ok THEN ParseFail
    ELSE LET xs == Append(acc, r.val) IN
         IF IsPunct(toks, r.next, "]")
         THEN [ok |-> TRUE, val |-> PyList(xs), next |-> r.next + 1]
         ELSE IF IsPunct(toks, r.next, ",")
              THEN ParseElements(toks, r.next + 1, xs)
              ELSE ParseFail

\* json.loads(s): [ok |-> TRUE, val |-> v], or ok = FALSE where json.loads
\* raises JSONDecodeError (no value, or text left after the value).
json_loads(s) ==
    LET r == ParseValue(s, 1) IN
    IF r.ok /\ r.next = Len(s) + 1
    THEN [ok |-> TRUE, val |-> r.val]
    ELSE [ok |-> FALSE, val |-> PyNone]

(* ---------------------------- the catalog ---------------------------- *)

TRACKING_KEY == "tracking_data"
CONFIG_KEY == "config"

BIBLE_VERSES ==
    PyDict(<< <<"Love & Service", PyStr("Matthew 25:35-40")>>,
              <<"Evangelism & Discipleship", PyStr("Matthew 28:19-20")>>,
              <<"Faithfulness in Trials", PyStr("James 1:12")>>,
              <<"Generosity & Giving", PyStr("2 Corinthians 9:7")>>,
              <<"Holiness & Obedience", PyStr("1 Peter 1:15-16")>>,
              <<"Use of Talents for God's Glory", PyStr("Matthew 25:14-30")>>,
              <<"Heart & Motivation Check", PyStr("Matthew 6:1-4")>> >>)

\* list(BIBLE_VERSES.keys()): the keys in insertion order
CATEGORIES == [i \in 1..Len(BIBLE_VERSES[2]) |-> BIBLE_VERSES[2][i][1]]

\* a slip: .get(category) without the default
verseForNone(category) == DictGet(BIBLE_VERSES, category, PyNone)

\* BIBLE_VERSES.get(category, "")
verseFor(category) == DictGet(BIBLE_VERSES, category, PyStr(""))

(* ------------------------------- dates --------------------------------- *)

\* the digits of n, zero-padded on the left to width w (%Y, %m, %d, %U)
Pad(n, w) ==
    LET ds == IntToDigits(n) IN
    [i \in 1..(w - Len(ds)) |-> "0"] \o ds

\* entry_date.strftime("%Y-%m-%d")
strftime_ymd(d) == Pad(d.year, 4) \o <<"-">> \o Pad(d.month, 2) \o <<"-">> \o Pad(d.day, 2)

\* pd.to_datetime on a "YYYY-MM-DD" string
to_datetime(cs) ==
    [year  |-> DigitsToInt(SubSeq(cs, 1, 4)),
     month |-> DigitsToInt(SubSeq(cs, 6, 7)),
     day   |-> DigitsToInt(SubSeq(cs, 9, 10))]

IsLeap(y) == (y % 4 = 0 /\ y % 100 # 0) \/ y % 400 = 0

DaysInMonth(y, m) ==
    IF m = 2 THEN (IF IsLeap(y) THEN 29 ELSE 28)
    ELSE IF m \in {4, 6, 9, 11} THEN 30 ELSE 31

RECURSIVE DaysBeforeMonth(_, _)
DaysBeforeMonth(y, m) ==
    IF m = 1 THEN 0 ELSE DaysBeforeMonth(y, m - 1) + DaysInMonth(y, m - 1)

\* tm_yday: days since January 1st
YearDay(d) == DaysBeforeMonth(d.year, d.month) + d.day - 1

\* the proleptic Gregorian ordinal; day 1 (0001-01-01) is a Monday
Ordinal(d) ==
    LET y == d.year - 1 IN
    y * 365 + (y \div 4) - (y \div 100) + (y \div 400) + YearDay(d) + 1

\* tm_wday: 0 is Sunday
WeekDay(d) == Ordinal(d) % 7

\* %U: week of the year, weeks start on Sunday, the days before the first
\* Sunday are week 0
WeekU(d) == (YearDay(d) + 7 - WeekDay(d)) \div 7

\* the 'Period' column: dt.strftime of '%Y-W%U', '%Y-%m' or '%Y'
PeriodOf(d, aggregation) ==
    CASE aggregation = "Weekly"  -> Pad(d.year, 4) \o <<"-", "W">> \o Pad(WeekU(d), 2)
      [] aggregation = "Monthly" -> Pad(d.year, 4) \o <<"-">> \o Pad(d.month, 2)
      [] aggregation = "Yearly"  -> Pad(d.year, 4)

\* the code point of a character of a date or period string
CharOrd(c) ==
    CASE c = "-" -> 45
      [] c = "W" -> 87
      [] OTHER   -> 48 + DigitVal(c)

RECURSIVE CharsLess(_, _)
\* a < b on two str, by code point, as Python compares them
CharsLess(a, b) ==
    IF Len(b) = 0 THEN FALSE
    ELSE IF Len(a) = 0 THEN TRUE
    ELSE IF CharOrd(a[1]) # CharOrd(b[1]) THEN CharOrd(a[1]) < CharOrd(b[1])
    ELSE CharsLess(Tail(a), Tail(b))

(* --------------------------- the cookie store --------------------------- *)

\* cookies[key] = value
CookieSet(c, key, value) == [k \in DOMAIN c \cup {key} |-> IF k = key THEN value ELSE c[k]]

\* a slip: a fallback that leaves one category without a goal
FallbackConfigShort ==
    PyDict(<<
      <<"goals", PyDict(<<
          <<"Love & Service", PyStr("Serve at least 5 people weekly")>>,
          <<"Evangelism & Discipleship", PyStr("Share the Gospel or mentor 3 people weekly")>>,
          <<"Faithfulness in Trials", PyStr("Journal one instance per trial of trust in God")>>,
          <<"Generosity & Giving", PyStr("Give 10% of income/time to ministry")>>,
          <<"Holiness & Obedience", PyStr("Engage in daily Bible study and prayer")>>,
          <<"Use of Talents for God's Glory", PyStr("Identify and use your talents weekly for ministry")>> >>)>>,
      <<"notification_settings", PyDict(<<
          <<"daily_reminder_time", PyStr("08:00")>>,
          <<"enable_notifications", PyBool(TRUE)>> >>)>> >>)

FallbackConfig ==
    PyDict(<<
      <<"goals", PyDict(<<
          <<"Love & Service", PyStr("Serve at least 5 people weekly")>>,
          <<"Evangelism & Discipleship", PyStr("Share the Gospel or mentor 3 people weekly")>>,
          <<"Faithfulness in Trials", PyStr("Journal one instance per trial of trust in God")>>,
          <<"Generosity & Giving", PyStr("Give 10% of income/time to ministry")>>,
          <<"Holiness & Obedience", PyStr("Engage in daily Bible study and prayer")>>,
          <<"Use of Talents for God's Glory", PyStr("Identify and use your talents weekly for ministry")>>,
          <<"Heart & Motivation Check", PyStr("Complete a monthly questionnaire on your intentions")>> >>)>>,
      <<"notification_settings", PyDict(<<
          <<"daily_reminder_time", PyStr("08:00")>>,
          <<"enable_notifications", PyBool(TRUE)>> >>)>> >>)

\* The repository's config.json, which is not among the sources: the
\* configuration document section 4.2 of the specification describes.
RepoConfigJson ==
    json_dumps(PyDict(<<
      <<"goals", PyDict(<<
          <<"Love & Service", PyStr("Serve at least 5 people weekly")>>,
          <<"Evangelism & Discipleship", PyStr("Share the Gospel or mentor 3 people weekly")>>,
          <<"Faithfulness in Trials", PyStr("Journal one instance per trial of trust in God")>>,
          <<"Generosity & Giving", PyStr("Give 10% of income/time to ministry")>>,
          <<"Holiness & Obedience", PyStr("Engage in daily Bible study and prayer")>>,
          <<"Use of Talents for God's Glory", PyStr("Identify and use your talents weekly for ministry")>>,
          <<"Heart & Motivation Check", PyStr("Complete a monthly questionnaire on your intentions")>> >>)>>,
      <<"notification_settings", PyDict(<<
          <<"daily_reminder_time", PyStr("08:00")>>,
          <<"enable_notifications", PyBool(TRUE)>> >>)>> >>))

\* The states config.json can be in when the app starts: the repository's
\* file, a file cut short, or no file.
ConfigFiles ==
    { [exists |-> TRUE, text |-> RepoConfigJson],
      [exists |-> TRUE, text |-> SubSeq(RepoConfigJson, 1, Len(RepoConfigJson) - 1)],
      [exists |-> FALSE, text |-> <<>>] }

\* load_config_file(): [ok, val]; ok = FALSE when open() or json.load raises
load_config_file(file) ==
    IF ~file.exists THEN [ok |-> FALSE, val |-> PyNone]
    ELSE json_loads(file.text)

EmptyData == PyDict(<< <<"entries", PyList(<<>>)>> >>)

ConfigFileError == "Error loading config.json. Using fallback configuration."

\* init_data_cookies(): the cookies after it, the keys it created and the
\* st.error message it showed
init_data_cookies(c, file) ==
    LET c1 == IF TRACKING_KEY \notin DOMAIN c
              THEN CookieSet(c, TRACKING_KEY, json_dumps(EmptyData))
              ELSE c
        f  == load_config_file(file)
        c2 == IF CONFIG_KEY \notin DOMAIN c1
              THEN CookieSet(c1, CONFIG_KEY,
                             json_dumps(IF f.ok THEN f.val ELSE FallbackConfig))
              ELSE c1
    IN [cookies |-> c2,
        created |-> {TRACKING_KEY, CONFIG_KEY} \ DOMAIN c,
        error   |-> IF CONFIG_KEY \notin DOMAIN c1 /\ ~f.ok THEN ConfigFileError ELSE ""]

\* load_data(): [ok, val]; ok = FALSE when json.loads raises
load_data(c) ==
    IF TRACKING_KEY \notin DOMAIN c THEN [ok |-> TRUE, val |-> EmptyData]
    ELSE json_loads(c[TRACKING_KEY])

\* save_data(data): the cookies after it
save_data(c, data) == CookieSet(c, TRACKING_KEY, json_dumps(data))

\* load_config(): [ok, val]; ok = FALSE when json.loads raises
load_config(c) ==
    IF CONFIG_KEY \notin DOMAIN c THEN [ok |-> TRUE, val |-> PyDict(<<>>)]
    ELSE json_loads(c[CONFIG_KEY])

\* save_config(config): the cookies after it
save_config(c, config) == CookieSet(c, CONFIG_KEY, json_dumps(config))

(* ------------------------------ the pages ------------------------------ *)

Date(y, m, d) == [year |-> y, month |-> m, day |-> d]

\* the form before the user has put anything in it
NoForm == [date |-> Date(1, 1, 1), metric |-> 0, reflection |-> ""]

NoInit == [cookies |-> <<>>, created |-> {}, error |-> ""]

\* What one script run shows: the page, the messages (st.error, st.info,
\* st.success), an uncaught exception, the values the page loaded and the
\* widgets and tables it rendered.
BaseView(page, init) ==
    [page        |-> page,
     error       |-> init.error,
     created     |-> init.created,
     info        |-> "",
     success     |-> FALSE,
     exception   |-> "",
     options     |-> <<>>,
     category    |-> "",
     submit      |-> FALSE,
     form        |-> NoForm,
     goal        |-> PyNone,
     bible_verse |-> PyNone,
     config      |-> PyNone,
     loaded      |-> FALSE,
     entries     |-> <<>>,
     new_entry   |-> PyNone,
     table       |-> <<>>,
     aggregation |-> "",
     filter      |-> "",
     chart       |-> <<>>,
     lines       |-> <<>>]

\* an exception that no handler of the script catches ends the run
Raise(c, v, name) == [cookies |-> c, view |-> [v EXCEPT !.exception = name]]

\* x["date"], the sort key of the Dashboard
DateKey(e) == Item(e, "date")[2]

\* sorted so far, with e put after every element whose key is >= e's key
InsertDesc(sorted, e) ==
    LET smaller == {i \in 1..Len(sorted) : CharsLess(DateKey(sorted[i]), DateKey(e))}
        at == IF smaller = {} THEN Len(sorted) + 1
              ELSE CHOOSE i \in smaller : \A j \in smaller : i <= j
    IN SubSeq(sorted, 1, at - 1) \o <<e>> \o SubSeq(sorted, at, Len(sorted))

\* a slip: sorted() without reverse=True
SortedByDateAsc(entries) ==
    LET Less(i, j) == \/ CharsLess(DateKey(entries[i]), DateKey(entries[j]))
                      \/ DateKey(entries[i]) = DateKey(entries[j]) /\ i < j
    IN [n \in 1..Len(entries) |->
          entries[CHOOSE i \in 1..Len(entries) :
                    Cardinality({j \in 1..Len(entries) : Less(j, i)}) = n - 1]]

RECURSIVE SortedByDateDesc(_)
\* sorted(entries, key=lambda x: x["date"], reverse=True): a stable sort
SortedByDateDesc(entries) ==
    IF Len(entries) = 0 THEN <<>>
    ELSE InsertDesc(SortedByDateDesc(SubSeq(entries, 1, Len(entries) - 1)),
                    entries[Len(entries)])

render_dashboard(c, v) ==
    LET r == load_data(c) IN
    IF ~r.ok THEN Raise(c, v, "JSONDecodeError")
    ELSE LET entries == DictGet(r.val, "entries", PyList(<<>>))[2]
             v1 == [v EXCEPT !.loaded = TRUE, !.entries = entries]
         IN [cookies |-> c,
             view |-> IF Len(entries) = 0
                      THEN [v1 EXCEPT !.info = "No entries have been logged yet."]
                      ELSE [v1 EXCEPT !.table = SortedByDateDesc(entries)]]

\* st.number_input(..., min_value=0, step=1)
min_value == 0

\* a slip: a number widget without min_value
FormAcceptsAnyMetric(category, form) ==
    \E i \in 1..Len(CATEGORIES) : CATEGORIES[i] = category

\* the values the widgets of the form can return
FormAccepts(category, form) ==
    /\ \E i \in 1..Len(CATEGORIES) : CATEGORIES[i] = category
    /\ form.metric >= min_value

\* the new_entry dictionary of a submit
NewEntry(category, form) ==
    PyDict(<< <<"date", PyChars(strftime_ymd(form.date))>>,
              <<"category", PyStr(category)>>,
              <<"metric", PyInt(form.metric)>>,
              <<"reflection", PyStr(form.reflection)>>,
              <<"bible_verse", verseFor(category)>> >>)

\* a slip: the new entry put at the head of the list
AppendEntryAtHead(data, new_entry) ==
    DictSet(data, "entries", PyList(<<new_entry>> \o Item(data, "entries")[2]))

\* data["entries"].append(new_entry)
AppendEntry(data, new_entry) ==
    DictSet(data, "entries", PyList(Append(Item(data, "entries")[2], new_entry)))

\* the part of render_log_entry that runs when the form is submitted
SubmitEntry(c, v, category, form) ==
    LET new_entry == NewEntry(category, form)
        r == load_data(c)
    IN IF ~r.ok THEN Raise(c, v, "JSONDecodeError")
       ELSE IF ~HasKey(r.val, "entries")
            THEN Raise(c, [v EXCEPT !.loaded = TRUE], "KeyError")
            ELSE [cookies |-> save_data(c, AppendEntry(r.val, new_entry)),
                  view |-> [v EXCEPT !.loaded = TRUE,
                                     !.entries = Item(r.val, "entries")[2],
                                     !.new_entry = new_entry,
                                     !.success = TRUE]]

render_log_entry(c, v, category, submit, form) ==
    LET cf == load_config(c) IN
    IF ~cf.ok THEN Raise(c, [v EXCEPT !.options = CATEGORIES, !.category = category],
                         "JSONDecodeError")
    ELSE LET goal == DictGet(DictGet(cf.val, "goals", PyDict(<<>>)), category,
                             PyStr("No goal defined."))
             v1 == [v EXCEPT !.options = CATEGORIES, !.category = category,
                             !.submit = submit,
                             !.form = IF submit THEN form ELSE NoForm,
                             !.config = cf.val, !.goal = goal,
                             !.bible_verse = verseFor(category)]
         IN IF submit THEN SubmitEntry(c, v1, category, form)
            ELSE [cookies |-> c, view |-> v1]

\* [entry for entry in entries if entry["category"] == filter_category]
FilterByCategory(entries, filter_category) ==
    SelectSeq(entries, LAMBDA e : Item(e, "category") = PyStr(filter_category))

render_view_entries(c, v, filter_category) ==
    LET r == load_data(c) IN
    IF ~r.ok THEN Raise(c, v, "JSONDecodeError")
    ELSE LET entries == DictGet(r.val, "entries", PyList(<<>>))[2]
             v1 == [v EXCEPT !.loaded = TRUE, !.entries = entries]
         IN [cookies |-> c,
             view |->
               IF Len(entries) = 0
               THEN [v1 EXCEPT !.info = "No entries logged yet."]
               ELSE LET filtered_entries ==
                          IF filter_category # "All"
                          THEN FilterByCategory(entries, filter_category)
                          ELSE entries
                        v2 == [v1 EXCEPT !.options = <<"All">> \o CATEGORIES,
                                         !.filter = filter_category]
                    IN IF Len(filtered_entries) > 0
                       THEN [v2 EXCEPT !.table = filtered_entries]
                       ELSE [v2 EXCEPT !.info =
                               "No entries found for the selected category."]]

\* a slip: a Settings page that writes the configuration back, with the
\* notifications switched off
render_settings_saving(c, v) ==
    LET cf == load_config(c) IN
    IF ~cf.ok THEN Raise(c, v, "JSONDecodeError")
    ELSE [cookies |-> save_config(c, DictSet(cf.val, "notification_settings",
                                     PyDict(<< <<"enable_notifications", PyBool(FALSE)>> >>))),
          view |-> [v EXCEPT !.config = cf.val]]

render_settings(c, v) ==
    LET cf == load_config(c) IN
    IF ~cf.ok THEN Raise(c, v, "JSONDecodeError")
    ELSE LET goals == DictGet(cf.val, "goals", PyDict(<<>>))
             notif_settings == DictGet(cf.val, "notification_settings", PyDict(<<>>))
         IN [cookies |-> c,
             view |-> [v EXCEPT
               !.config = cf.val,
               !.lines = [i \in 1..Len(CATEGORIES) |->
                            DictGet(goals, CATEGORIES[i], PyStr("No goal defined."))]
                         \o << DictGet(notif_settings, "daily_reminder_time", PyStr("Not set")),
                               DictGet(notif_settings, "enable_notifications", PyBool(FALSE)) >>,
               !.info = "Settings are currently read-only in this version."]]

\* the rows of pd.DataFrame(entries) with 'date' converted and 'Period' added
Frame(entries, aggregation) ==
    [i \in 1..Len(entries) |->
        LET date == to_datetime(Item(entries[i], "date")[2]) IN
        [date     |-> date,
         category |-> Item(entries[i], "category")[2],
         metric   |-> Item(entries[i], "metric")[2],
         Period   |-> PeriodOf(date, aggregation)]]

\* the group key of a row: (Period, category) or (Period,)
KeyOf(row, by_category) ==
    IF by_category THEN <<row.Period, row.category>> ELSE <<row.Period>>

RECURSIVE DistinctKeys(_, _)
\* the distinct keys of the rows, in the order they first occur
DistinctKeys(df, by_category) ==
    IF Len(df) = 0 THEN <<>>
    ELSE LET before == DistinctKeys(SubSeq(df, 1, Len(df) - 1), by_category)
             k == KeyOf(df[Len(df)], by_category)
         IN IF \E i \in 1..Len(before) : before[i] = k THEN before
            ELSE Append(before, k)

\* the category names in the order Python's str comparison puts them
CategoryOrder ==
    << "Evangelism & Discipleship", "Faithfulness in Trials", "Generosity & Giving",
       "Heart & Motivation Check", "Holiness & Obedience", "Love & Service",
       "Use of Talents for God's Glory" >>

StrRank(s) == CHOOSE i \in 1..Len(CategoryOrder) : CategoryOrder[i] = s

\* k1 < k2 on group keys: by Period, then by category
KeyLess(k1, k2) ==
    \/ CharsLess(k1[1], k2[1])
    \/ /\ k1[1] = k2[1]
       /\ Len(k1) = 2
       /\ StrRank(k1[2]) < StrRank(k2[2])

\* a slip: groupby(..., sort=False), the groups in the order they first occur
SortKeysOff(keys) == keys

RECURSIVE SortKeys(_)
\* groupby(..., sort=True), the default: the group keys in ascending order
SortKeys(keys) ==
    IF Len(keys) = 0 THEN <<>>
    ELSE LET rest == SortKeys(SubSeq(keys, 1, Len(keys) - 1))
             k == keys[Len(keys)]
             n == Cardinality({i \in 1..Len(rest) : KeyLess(rest[i], k)})
         IN SubSeq(rest, 1, n) \o <<k>> \o SubSeq(rest, n + 1, Len(rest))

RECURSIVE SumMetricCount(_, _, _)
\* a slip: .count() for .sum()
SumMetricCount(df, k, by_category) ==
    IF Len(df) = 0 THEN 0
    ELSE SumMetricCount(SubSeq(df, 1, Len(df) - 1), k, by_category)
         + (IF KeyOf(df[Len(df)], by_category) = k THEN 1 ELSE 0)

RECURSIVE SumMetric(_, _, _)
\* ['metric'].sum() of the rows of one group
SumMetric(df, k, by_category) ==
    IF Len(df) = 0 THEN 0
    ELSE SumMetric(SubSeq(df, 1, Len(df) - 1), k, by_category)
         + (IF KeyOf(df[Len(df)], by_category) = k THEN df[Len(df)].metric ELSE 0)

\* df.groupby(keys)['metric'].sum().reset_index()
GroupBySum(df, by_category) ==
    LET keys == SortKeys(DistinctKeys(df, by_category)) IN
    [i \in 1..Len(keys) |->
        [key |-> keys[i], metric |-> SumMetric(df, keys[i], by_category)]]

render_reports(c, v, aggregation, filter_category) ==
    LET r == load_data(c) IN
    IF ~r.ok THEN Raise(c, v, "JSONDecodeError")
    ELSE LET entries == DictGet(r.val, "entries", PyList(<<>>))[2]
             v1 == [v EXCEPT !.loaded = TRUE, !.entries = entries]
         IN [cookies |-> c,
             view |->
               IF Len(entries) = 0
               THEN [v1 EXCEPT !.info =
                       "No entries logged yet. Please log some entries to see visualizations."]
               ELSE LET frame == Frame(entries, aggregation)
                        df == IF filter_category # "All"
                              THEN SelectSeq(frame, LAMBDA row : row.category = filter_category)
                              ELSE frame
                        v2 == [v1 EXCEPT !.options = <<"All">> \o CATEGORIES,
                                         !.aggregation = aggregation,
                                         !.filter = filter_category]
                    IN IF Len(df) = 0
                       THEN [v2 EXCEPT !.info = "No data available for the selected filters."]
                       ELSE [v2 EXCEPT !.chart = GroupBySum(df, filter_category = "All")]]

(* ------------------------------ the inputs ----------------------------- *)

\* What the user puts in the Log Entry form (date, metric, reflection) with
\* the category picked above it.  The last one is a metric below min_value,
\* which the number widget does not return.
FormInputs ==
    { [category |-> "Love & Service", date |-> Date(2024, 1, 10), metric |-> 3, reflection |-> ""],
      [category |-> "Evangelism & Discipleship", date |-> Date(2024, 3, 5), metric |-> 12, reflection |-> "note"],
      [category |-> "Love & Service", date |-> Date(2024, 1, 20), metric |-> 0, reflection |-> ""],
      [category |-> "Heart & Motivation Check", date |-> Date(2024, 1, 10), metric |-> 1, reflection |-> ""],
      [category |-> "Love & Service", date |-> Date(2024, 1, 10), metric |-> -1, reflection |-> ""] }

\* The forms submitted before the Reports page is looked at.
ReportInputs ==
    { [category |-> "Love & Service", date |-> Date(2024, 1, 5), metric |-> 3, reflection |-> ""],
      [category |-> "Love & Service", date |-> Date(2024, 1, 12), metric |-> 2, reflection |-> ""],
      [category |-> "Evangelism & Discipleship", date |-> Date(2024, 2, 1), metric |-> 4, reflection |-> ""],
      [category |-> "Evangelism & Discipleship", date |-> Date(2024, 3, 5), metric |-> 12, reflection |-> "note"],
      [category |-> "Heart & Motivation Check", date |-> Date(2023, 12, 31), metric |-> 1, reflection |-> ""] }

Aggregations == {"Weekly", "Monthly", "Yearly"}

CategorySet == {CATEGORIES[i] : i \in 1..Len(CATEGORIES)}

\* the entries of the persisted collection (none when it does not parse)
Persisted(c) ==
    LET r == load_data(c) IN
    IF r.ok /\ HasKey(r.val, "entries") THEN Item(r.val, "entries")[2] ELSE <<>>

(* ------------------------------ the actions ---------------------------- *)

\* Streamlit runs the script from the top on every interaction, into a page
\* it has cleared: Interact is the user's click, and each Run action is one
\* whole script run, init_data_cookies() and then the page chosen in the
\* sidebar.
Blank == BaseView("", NoInit)

Interact ==
    /\ view # Blank
    /\ view' = Blank
    /\ UNCHANGED <<cookies, config_json, session, probe>>

Ran(r) ==
    /\ view = Blank
    /\ cookies' = r.cookies
    /\ view' = r.view
    /\ UNCHANGED <<config_json, session, probe>>

RunDashboard ==
    LET i == init_data_cookies(cookies, config_json) IN
    Ran(render_dashboard(i.cookies, BaseView("Dashboard", i)))

RunLogEntry(category) ==
    LET i == init_data_cookies(cookies, config_json) IN
    Ran(render_log_entry(i.cookies, BaseView("Log Entry", i), category, FALSE, NoForm))

RunSubmitEntry(f) ==
    LET i == init_data_cookies(cookies, config_json)
        r == render_log_entry(i.cookies, BaseView("Log Entry", i), f.category, TRUE,
                              [date |-> f.date, metric |-> f.metric,
                               reflection |-> f.reflection])
    IN /\ view = Blank
       /\ FormAccepts(f.category, f)
       /\ Len(r.view.entries) < MaxEntries
       /\ Ran(r)

RunViewEntries(filter_category) ==
    LET i == init_data_cookies(cookies, config_json) IN
    Ran(render_view_entries(i.cookies, BaseView("View Entries", i), filter_category))

RunReports(aggregation, filter_category) ==
    LET i == init_data_cookies(cookies, config_json) IN
    Ran(render_reports(i.cookies, BaseView("Reports", i), aggregation, filter_category))

RunSettings ==
    LET i == init_data_cookies(cookies, config_json) IN
    Ran(render_settings(i.cookies, BaseView("Settings", i)))

(* --------------------- two sessions on one store ---------------------- *)

\* Two browser tabs run the script on the same cookies.  A submit is the
\* steps of lines 154-157: the session loads the collection, and later
\* appends its entry to what it loaded and saves that.
Sessions == {"tab1", "tab2"}

Idle == [pc |-> "idle", data |-> PyNone, new_entry |-> PyNone]

\* data = load_data(), with new_entry already built from the form
SessionLoad(s, f) ==
    LET i == init_data_cookies(cookies, config_json)
        r == load_data(i.cookies)
    IN /\ session[s].pc = "idle"
       /\ FormAccepts(f.category, f)
       /\ r.ok
       /\ Len(Item(r.val, "entries")[2]) < MaxEntries
       /\ cookies' = i.cookies
       /\ session' = [session EXCEPT ![s] =
                        [pc |-> "loaded", data |-> r.val,
                         new_entry |-> NewEntry(f.category, f)]]
       /\ UNCHANGED <<config_json, view, probe>>

\* a change: the save appends to a collection loaded again at that moment
SessionSaveReloading(s) ==
    /\ session[s].pc = "loaded"
    /\ cookies' = save_data(cookies, AppendEntry(load_data(cookies).val, session[s].new_entry))
    /\ session' = [session EXCEPT ![s].pc = "done"]
    /\ UNCHANGED <<config_json, view, probe>>

\* data["entries"].append(new_entry); save_data(data); st.success(...)
SessionSave(s) ==
    /\ session[s].pc = "loaded"
    /\ cookies' = save_data(cookies, AppendEntry(session[s].data, session[s].new_entry))
    /\ session' = [session EXCEPT ![s].pc = "done"]
    /\ UNCHANGED <<config_json, view, probe>>

\* both tabs have shown their success message; each goes on to a next submit
NextRound ==
    /\ \A s \in Sessions : session[s].pc = "done"
    /\ session' = [s \in Sessions |-> Idle]
    /\ UNCHANGED <<cookies, config_json, view, probe>>

(* ------------------------ a damaged cookie value ----------------------- *)

\* The cookie values live in the user's browser: between two script runs a
\* value can be cut short (no longer JSON) or replaced by an empty object.
Damaged(text, how) ==
    IF how = "cut" THEN SubSeq(text, 1, Len(text) - 1)
    ELSE json_dumps(PyDict(<<>>))

Corrupt(key, how) ==
    /\ view = Blank
    /\ key \in DOMAIN cookies
    /\ json_loads(cookies[key]).ok
    /\ cookies' = CookieSet(cookies, key, Damaged(cookies[key], how))
    /\ UNCHANGED <<config_json, view, session, probe>>

(* --------------------------- the verse lookup -------------------------- *)

\* the names the lookup is tried on: the categories and some others
LookupKeys == CategorySet \cup {"All", "", "love & service", "Prayer"}

NoLookup == [key |-> "", looked |-> FALSE, raised |-> FALSE, verse |-> PyNone]

\* bible_verse = BIBLE_VERSES.get(category, ""), for any category name;
\* dict.get does not raise
VerseLookup(category) ==
    /\ probe' = [key |-> category, looked |-> TRUE, raised |-> FALSE,
                 verse |-> verseFor(category)]
    /\ UNCHANGED <<cookies, config_json, view, session>>

(* --------------------------- specifications ---------------------------- *)

Init ==
    /\ cookies = <<>>
    /\ config_json \in ConfigFiles
    /\ view = Blank
    /\ session = [s \in Sessions |-> Idle]
    /\ probe = NoLookup

Filters == {"All"} \cup CategorySet

Next ==
    \/ Interact
    \/ RunDashboard
    \/ \E category \in CategorySet : RunLogEntry(category)
    \/ \E f \in FormInputs : RunSubmitEntry(f)
    \/ \E filter_category \in Filters : RunViewEntries(filter_category)
    \/ \E aggregation \in Aggregations, filter_category \in Filters :
          RunReports(aggregation, filter_category)
    \/ RunSettings

\* one session, every page
Spec == Init /\ [][Next]_vars

NextReports ==
    \/ Interact
    \/ \E f \in ReportInputs : RunSubmitEntry(f)
    \/ \E aggregation \in Aggregations, filter_category \in Filters :
          RunReports(aggregation, filter_category)

\* the Reports page after any forms of ReportInputs were submitted
SpecReports == Init /\ [][NextReports]_vars

NextRace ==
    \/ \E s \in Sessions, f \in FormInputs : SessionLoad(s, f)
    \/ \E s \in Sessions : SessionSave(s)
    \/ NextRound

\* two sessions submitting on one store
SpecRace == Init /\ [][NextRace]_vars

NextFault ==
    \/ Next
    \/ \E key \in {TRACKING_KEY, CONFIG_KEY}, how \in {"cut", "emptied"} : Corrupt(key, how)

\* one session, every page, and cookie values that get damaged
SpecFault == Init /\ [][NextFault]_vars

NextCatalog ==
    \/ Interact
    \/ \E category \in CategorySet : RunLogEntry(category)
    \/ \E category \in LookupKeys : VerseLookup(category)

\* the category selectbox and the verse lookup
SpecCatalog == Init /\ [][NextCatalog]_vars

(* ------------------------------ the claims ----------------------------- *)

\* the characters of a date as the form writes it
Chars_2024_01_10 == <<"2", "0", "2", "4", "-", "0", "1", "-", "1", "0">>
Chars_2024_03_05 == <<"2", "0", "2", "4", "-", "0", "3", "-", "0", "5">>
Chars_2024_01_20 == <<"2", "0", "2", "4", "-", "0", "1", "-", "2", "0">>

\* the zero-padded decimal digits of n, two or four wide, written out from
\* a table rather than computed as the model computes them
TwoDigits(n) == <<DigitChars[(n \div 10) + 1], DigitChars[(n % 10) + 1]>>

IsoDate(d) ==
    TwoDigits(d.year \div 100) \o TwoDigits(d.year % 100) \o <<"-">>
    \o TwoDigits(d.month) \o <<"-">> \o TwoDigits(d.day)

\* the seven categories, in the order of the catalog
SevenCategories ==
    << "Love & Service", "Evangelism & Discipleship", "Faithfulness in Trials",
       "Generosity & Giving", "Holiness & Obedience", "Use of Talents for God's Glory",
       "Heart & Motivation Check" >>

SevenSet == {SevenCategories[i] : i \in 1..Len(SevenCategories)}

\* the scripture reference of each of the seven
CatalogVerse ==
    [c \in SevenSet |->
       CASE c = "Love & Service" -> "Matthew 25:35-40"
         [] c = "Evangelism & Discipleship" -> "Matthew 28:19-20"
         [] c = "Faithfulness in Trials" -> "James 1:12"
         [] c = "Generosity & Giving" -> "2 Corinthians 9:7"
         [] c = "Holiness & Obedience" -> "1 Peter 1:15-16"
         [] c = "Use of Talents for God's Glory" -> "Matthew 25:14-30"
         [] c = "Heart & Motivation Check" -> "Matthew 6:1-4"]

\* what a step does to the persisted collection
AppendStep ==
    LET before == Persisted(cookies)
        after == Persisted(cookies')
    IN IF view'.success
       THEN /\ Len(after) = Len(before) + 1
            /\ SubSeq(after, 1, Len(before)) = before
            /\ after[Len(after)] =
                 PyDict(<< <<"date", PyChars(IsoDate(view'.form.date))>>,
                           <<"category", PyStr(view'.category)>>,
                           <<"metric", PyInt(view'.form.metric)>>,
                           <<"reflection", PyStr(view'.form.reflection)>>,
                           <<"bible_verse", PyStr(CatalogVerse[view'.category])>> >>)
       ELSE after = before

\* C1: a submit of the Log Entry form leaves load_data() equal to what it
\* was before with the new entry added at the tail, the new entry equal to
\* the form in all five fields; every other step leaves the collection as
\* it was (so an earlier collection is always a prefix of a later one).
C1_AppendRoundTrip == [][AppendStep]_vars

\* a submit with a two-digit metric just went onto a collection of two entries
C1_Witness ==
    /\ view.success
    /\ view.form.metric = 12
    /\ Len(view.entries) = 2
    /\ Len(Persisted(cookies)) = 3
    /\ Persisted(cookies)[3] = view.new_entry

\* C10: every persisted entry has one of the 7 categories, the catalog's
\* verse for that category, and a metric that is a non-negative integer.
C10_EntriesWellFormed ==
    LET persisted == Persisted(cookies) IN
    \A i \in 1..Len(persisted) :
       LET e == persisted[i] IN
       /\ Item(e, "category")[1] = "str"
       /\ Item(e, "category")[2] \in SevenSet
       /\ Item(e, "bible_verse") = PyStr(CatalogVerse[Item(e, "category")[2]])
       /\ Item(e, "metric")[1] = "int"
       /\ Item(e, "metric")[2] \in Nat

\* three entries of three categories are persisted, one with metric 0
C10_Witness ==
    /\ Len(Persisted(cookies)) = 3
    /\ Cardinality({Item(Persisted(cookies)[i], "category")[2] : i \in 1..3}) = 3
    /\ \E i \in 1..3 : Item(Persisted(cookies)[i], "metric") = PyInt(0)

\* how many times x occurs in the sequence xs
Occurrences(xs, x) == Cardinality({i \in 1..Len(xs) : xs[i] = x})

DatesOf(entries) == [i \in 1..Len(entries) |-> Item(entries[i], "date")[2]]

\* C8: the Dashboard shows exactly the entries of load_data(), ordered by
\* date descending, and leaves the persisted collection in append order;
\* entries appended with dates 2024-01-10, 2024-03-05, 2024-01-20 are shown
\* as 2024-03-05, 2024-01-20, 2024-01-10.
C8_DashboardOrder ==
    (view.page = "Dashboard" /\ view.loaded) =>
       /\ view.exception = ""
       /\ Len(view.table) = Len(view.entries)
       /\ \A i \in 1..Len(view.entries) :
             Occurrences(view.table, view.entries[i])
               = Occurrences(view.entries, view.entries[i])
       /\ \A i, j \in 1..Len(view.table) :
             i < j => ~CharsLess(DatesOf(view.table)[i], DatesOf(view.table)[j])
       /\ Persisted(cookies) = view.entries
       /\ DatesOf(view.entries) = <<Chars_2024_01_10, Chars_2024_03_05, Chars_2024_01_20>>
             => DatesOf(view.table) = <<Chars_2024_03_05, Chars_2024_01_20, Chars_2024_01_10>>

\* the Dashboard shows the three entries of the example
C8_Witness ==
    /\ view.page = "Dashboard"
    /\ DatesOf(Persisted(cookies)) = <<Chars_2024_01_10, Chars_2024_03_05, Chars_2024_01_20>>
    /\ DatesOf(view.table) = <<Chars_2024_03_05, Chars_2024_01_20, Chars_2024_01_10>>

\* the configuration the first run is to leave behind
IsDefaultConfig(config) ==
    /\ IsDict(config)
    /\ HasKey(config, "goals")
    /\ \A c \in SevenSet :
          /\ HasKey(Item(config, "goals"), c)
          /\ Item(Item(config, "goals"), c)[1] = "str"
          /\ Item(Item(config, "goals"), c)[2] # ""
    /\ HasKey(config, "notification_settings")
    /\ DictGet(Item(config, "notification_settings"), "enable_notifications", PyNone)
          = PyBool(TRUE)
    /\ DictGet(Item(config, "notification_settings"), "daily_reminder_time", PyNone)
          = PyStr("08:00")

\* C6: the run that starts on a fresh store (it creates both cookies)
\* persists a configuration with a non-empty goal for each of the 7
\* categories, notifications enabled and the reminder at 08:00, load_config()
\* returns it, and load_data() returns no entries and no error.
C6_FirstRun ==
    view.created = {TRACKING_KEY, CONFIG_KEY} =>
       /\ view.exception = ""
       /\ load_config(cookies).ok
       /\ IsDefaultConfig(load_config(cookies).val)
       /\ view.config # PyNone => view.config = load_config(cookies).val
       /\ view.loaded => view.entries = <<>>
       /\ ~view.success => Persisted(cookies) = <<>>

\* the first run, with no config.json to read, is a submit: it loads both
C6_Witness ==
    /\ view.created = {TRACKING_KEY, CONFIG_KEY}
    /\ view.error = ConfigFileError
    /\ view.success
    /\ view.loaded
    /\ view.config # PyNone

\* what a step does to a configuration that is persisted
ConfigStep ==
    CONFIG_KEY \in DOMAIN cookies =>
       /\ CONFIG_KEY \in DOMAIN cookies'
       /\ cookies'[CONFIG_KEY] = cookies[CONFIG_KEY]
       /\ view'.config # PyNone => view'.config = load_config(cookies).val

\* C7: once a configuration is persisted no step changes it, and a
\* load_config() of a run returns what a load_config() before the run
\* would have returned.
C7_ConfigFrame == [][ConfigStep]_vars

\* the Settings page of a later run, after a submit, has loaded the configuration
C7_Witness ==
    /\ view.page = "Settings"
    /\ view.created = {}
    /\ view.config # PyNone
    /\ Len(Persisted(cookies)) > 0

Chars_2024_01 == <<"2", "0", "2", "4", "-", "0", "1">>
Chars_2024_02 == <<"2", "0", "2", "4", "-", "0", "2">>
Chars_2024_01_05 == <<"2", "0", "2", "4", "-", "0", "1", "-", "0", "5">>
Chars_2024_01_12 == <<"2", "0", "2", "4", "-", "0", "1", "-", "1", "2">>
Chars_2024_02_01 == <<"2", "0", "2", "4", "-", "0", "2", "-", "0", "1">>

\* the entries the Reports page loaded that pass its category filter
Passing ==
    {i \in 1..Len(view.entries) :
        view.filter = "All" \/ Item(view.entries[i], "category") = PyStr(view.filter)}

\* the period of an entry under the granularity of the page
ReportPeriod(e) == PeriodOf(to_datetime(Item(e, "date")[2]), view.aggregation)

\* the key of an entry: (period, category) under "All", else (period)
ReportKey(e) ==
    IF view.filter = "All" THEN <<ReportPeriod(e), Item(e, "category")[2]>>
    ELSE <<ReportPeriod(e)>>

RECURSIVE MetricTotal(_)
\* the sum of the metric of the entries numbered in S
MetricTotal(S) ==
    IF S = {} THEN 0
    ELSE LET i == CHOOSE i \in S : TRUE IN
         Item(view.entries[i], "metric")[2] + MetricTotal(S \ {i})

\* the three entries of the aggregation example
IsExample(entries) ==
    /\ DatesOf(entries) = <<Chars_2024_01_05, Chars_2024_01_12, Chars_2024_02_01>>
    /\ [i \in 1..3 |-> Item(entries[i], "category")[2]]
         = <<"Love & Service", "Love & Service", "Evangelism & Discipleship">>
    /\ [i \in 1..3 |-> Item(entries[i], "metric")[2]] = <<3, 2, 4>>

\* C2: the Reports page yields exactly one group per key that occurs among
\* the entries passing the filter (period, or period and category under
\* "All"), each with the sum of the metric of the entries of that key, and
\* an empty result with a message, not an exception, when no entry passes.
C2_Aggregation ==
    (view.page = "Reports" /\ view.loaded) =>
       LET keys == {ReportKey(view.entries[i]) : i \in Passing} IN
       /\ view.exception = ""
       /\ Len(view.chart) = Cardinality(keys)
       /\ {view.chart[n].key : n \in 1..Len(view.chart)} = keys
       /\ \A n \in 1..Len(view.chart) :
             view.chart[n].metric =
                MetricTotal({i \in Passing : ReportKey(view.entries[i]) = view.chart[n].key})
       /\ Passing = {} => (view.chart = <<>> /\ view.info # "")
       /\ (IsExample(view.entries) /\ view.aggregation = "Monthly"
             /\ view.filter = "Love & Service")
            => view.chart = << [key |-> <<Chars_2024_01>>, metric |-> 5] >>

\* Monthly, "All", on the three entries of the example
C2_Witness ==
    /\ view.page = "Reports"
    /\ IsExample(view.entries)
    /\ view.aggregation = "Monthly"
    /\ view.filter = "All"
    /\ view.chart = << [key |-> <<Chars_2024_01, "Love & Service">>, metric |-> 5],
                       [key |-> <<Chars_2024_02, "Evangelism & Discipleship">>, metric |-> 4] >>

\* the first entry passing the filter that has the period p
FirstWith(p) ==
    CHOOSE i \in Passing :
       /\ ReportPeriod(view.entries[i]) = p
       /\ \A j \in Passing : ReportPeriod(view.entries[j]) = p => i <= j

\* C3 as claimed: the groups come in the order in which their periods first
\* occur in the entry list.
C3_FirstOccurrenceOrder ==
    view.page = "Reports" =>
       \A n, m \in 1..Len(view.chart) :
          n < m => FirstWith(view.chart[n].key[1]) <= FirstWith(view.chart[m].key[1])

\* C3: the groups come in ascending order of period (in ascending order of
\* category within one period), whatever the order the entries were
\* appended in.
C3_AscendingOrder ==
    view.page = "Reports" =>
       \A n, m \in 1..Len(view.chart) :
          n < m =>
             \/ CharsLess(view.chart[n].key[1], view.chart[m].key[1])
             \/ /\ view.chart[n].key[1] = view.chart[m].key[1]
                /\ view.filter = "All"
                /\ \E a, b \in 1..Len(CategoryOrder) :
                      /\ a < b
                      /\ CategoryOrder[a] = view.chart[n].key[2]
                      /\ CategoryOrder[b] = view.chart[m].key[2]

\* a 2024-03 entry was appended before a 2024-01 entry; Monthly puts 2024-01 first
C3_Witness ==
    /\ view.page = "Reports"
    /\ view.aggregation = "Monthly"
    /\ Len(view.entries) >= 2
    /\ Item(view.entries[1], "date")[2] = Chars_2024_03_05
    /\ Item(view.entries[2], "date")[2] = Chars_2024_01_05
    /\ Len(view.chart) >= 2
    /\ view.chart[1].key[1] = Chars_2024_01

\* what a session loaded
LoadedBy(s) == Item(session[s].data, "entries")[2]

\* C9: when both sessions have reported success, the persisted collection
\* is what one of them loaded plus its own entry alone if both loaded
\* before either saved (they loaded the same collection), and is what the
\* first loaded plus both entries if they did not interleave.
C9_RaceOutcome ==
    \A a, b \in Sessions :
       (a # b /\ session[a].pc = "done" /\ session[b].pc = "done") =>
          IF LoadedBy(a) = LoadedBy(b)
          THEN Persisted(cookies) \in { Append(LoadedBy(a), session[a].new_entry),
                                        Append(LoadedBy(b), session[b].new_entry) }
          ELSE Len(LoadedBy(a)) < Len(LoadedBy(b)) =>
                  Persisted(cookies) =
                     LoadedBy(a) \o <<session[a].new_entry, session[b].new_entry>>

\* both reported success for different entries and one of the two is not persisted
C9_Witness ==
    \E a, b \in Sessions :
       /\ a # b
       /\ session[a].pc = "done"
       /\ session[b].pc = "done"
       /\ session[a].new_entry # session[b].new_entry
       /\ Len(LoadedBy(a)) = 1
       /\ Persisted(cookies) = Append(LoadedBy(b), session[b].new_entry)
       /\ \A i \in 1..Len(Persisted(cookies)) : Persisted(cookies)[i] # session[a].new_entry

\* the cookie value under key is not JSON
Malformed(key) == key \in DOMAIN cookies /\ ~json_loads(cookies[key]).ok

\* C5 as claimed: a page that loads a malformed document ends with a
\* warning shown and without an unhandled error.
C5_MalformedHandled ==
    ( \/ /\ Malformed(TRACKING_KEY)
         /\ \/ view.page \in {"Dashboard", "View Entries", "Reports"}
            \/ view.page = "Log Entry" /\ view.submit
      \/ /\ Malformed(CONFIG_KEY)
         /\ view.page \in {"Log Entry", "Settings"} )
    => (view.exception = "" /\ view.error # "")

====
